---- MODULE Spec2Model ----
(***************************************************************************)
(* A model of the Cirq tutorial scripts of the repository:                 *)
(*   - quantum_error_mitigation.py: create_test_circuit,                   *)
(*     add_noise_to_circuit, run_circuit_multiple_scales, scale_noise,     *)
(*     zero_noise_extrapolation;                                           *)
(*   - quantum_addition.py: quantum_half_adder, add_two_bits;              *)
(*   - quantum_crypto_bb84.py: the BB84 key loop.                          *)
(* One behaviour runs one of the four programs, chosen in Init (prog).     *)
(*                                                                         *)
(* A circuit is a sequence of moments, a moment a sequence of operations,  *)
(* an operation a record [gate, exp, qubits, key].  Scale factors are      *)
(* counted in quarters (4 is 1.0, 6 is 1.5): every value is exact in       *)
(* binary floating point, so int((scale_factor - 1.0) * 2) is computed     *)
(* without rounding.                                                       *)
(***************************************************************************)
EXTENDS Integers, Sequences, FiniteSets, TLC

VARIABLES
    prog,        \* which script this behaviour runs
    \* ---- quantum_error_mitigation.py: run_circuit_multiple_scales / scale_noise
    pc,          \* control point of the error-mitigation run
    heap,        \* the cirq.Circuit objects: heap[id] is the moment list of object id
    orig,        \* the moment list the input circuit had when the run started
    calls,       \* iterations of "for scale in noise_scales" started so far
    scale,       \* scale_factor of the current scale_noise call, in quarters
    scaled,      \* object id of the local scaled_circuit (0: not created)
    mi,          \* index of the next moment of "for moment in circuit"
    emitted,     \* operations appended to scaled_circuit for each moment handled
    invreq,      \* the operations cirq.inverse was asked to invert in this call
    ret,         \* object id the current call returned (0: none)
    variants,    \* the scaled circuits built so far: [id, scale] each
    target,      \* index in variants of the circuit a caller appended to (0: none)
    \* ---- quantum_error_mitigation.py: zero_noise_extrapolation
    zpc, noise_scales, expectation_values, zresult,
    \* ---- quantum_addition.py: add_two_bits
    apc, bit_a, bit_b, full_circuit, amoment, qstate, measurements, aresult,
    \* ---- quantum_crypto_bb84.py
    bpc, alice_bits, alice_bases, bob_bases, bi, key, measured_bit

vars == <<prog, pc, heap, orig, calls, scale, scaled, mi, emitted, invreq, ret,
          variants, target, zpc, noise_scales, expectation_values, zresult,
          apc, bit_a, bit_b, full_circuit, amoment, qstate, measurements,
          aresult, bpc, alice_bits, alice_bases, bob_bases, bi, key,
          measured_bit>>

foldVars == <<pc, heap, orig, calls, scale, scaled, mi, emitted, invreq, ret,
              variants, target>>
zneVars == <<zpc, noise_scales, expectation_values, zresult>>
adderVars == <<apc, bit_a, bit_b, full_circuit, amoment, qstate, measurements,
               aresult>>
bb84Vars == <<bpc, alice_bits, alice_bases, bob_bases, bi, key, measured_bit>>

-----------------------------------------------------------------------------
(* Bounds of the model.                                                    *)

\* longest input circuit of scale_noise drawn from MomentMenu
MaxMoments == 2
\* largest scale factor, in quarters (8 is 2.0)
MaxScale == 8
\* most iterations of "for scale in noise_scales"
MaxCalls == 2
\* longest noise_scales list handed to zero_noise_extrapolation
MaxPts == 3
\* largest scale factor of a noise_scales list, in halves (4 is 2.0)
MaxHalf == 4
\* largest expectation value, in units of 1/repetitions
MaxCount == 2
\* num_bits of the BB84 loop (8 in the script)
NumBits == 3

-----------------------------------------------------------------------------
(* cirq operations, moments and circuits.                                  *)

Gate(g, qs) == [gate |-> g, exp |-> 1, qubits |-> qs, key |-> ""]
H(q) == Gate("H", <<q>>)
X(q) == Gate("X", <<q>>)
CNOT(c, t) == Gate("CNOT", <<c, t>>)
CCNOT(c1, c2, t) == Gate("CCNOT", <<c1, c2, t>>)
depolarize(q) == Gate("depolarize", <<q>>)
measure(q, k) == [gate |-> "measure", exp |-> 1, qubits |-> <<q>>, key |-> k]

\* isinstance(op.gate, cirq.MeasurementGate)
IsMeasurement(op) == op.gate = "measure"

\* any(isinstance(op.gate, cirq.MeasurementGate) for op in moment)
HasMeasurement(moment) == \E i \in 1..Len(moment) : IsMeasurement(moment[i])

Range(s) == {s[i] : i \in 1..Len(s)}

\* Moment.operates_on(qubits)
OperatesOn(moment, qs) ==
    \E i \in 1..Len(moment) : Range(moment[i].qubits) \cap Range(qs) # {}

MeasurementKeys(moment) ==
    {moment[i].key : i \in {j \in 1..Len(moment) : IsMeasurement(moment[j])}}

\* a moment that stops the backward scan of Circuit.earliest_available_moment
Blocks(moment, op) ==
    \/ OperatesOn(moment, op.qubits)
    \/ IsMeasurement(op) /\ op.key \in MeasurementKeys(moment)

\* Circuit.earliest_available_moment: scan back from the end; the operation
\* goes right after the last moment that blocks it (1-based index).
RECURSIVE EarliestAvailableMoment(_, _, _)
EarliestAvailableMoment(circuit, op, k) ==
    IF k = 0 THEN 1
    ELSE IF Blocks(circuit[k], op) THEN k + 1
    ELSE EarliestAvailableMoment(circuit, op, k - 1)

\* Circuit.append(op), InsertStrategy.EARLIEST
AppendOp(circuit, op) ==
    LET k == EarliestAvailableMoment(circuit, op, Len(circuit))
    IN  IF k > Len(circuit) THEN Append(circuit, <<op>>)
        ELSE [circuit EXCEPT ![k] = Append(@, op)]

\* Circuit.append(moment): a Moment is inserted intact as a new last moment
AppendMoment(circuit, moment) == Append(circuit, moment)

\* Circuit.append([op, ...])
RECURSIVE AppendOps(_, _)
AppendOps(circuit, ops) ==
    IF ops = <<>> THEN circuit
    ELSE AppendOps(AppendOp(circuit, Head(ops)), Tail(ops))

\* does cirq.inverse(op) return (True) or raise TypeError (False): the
\* power gates H, X, CNOT, CCNOT have an inverse, a depolarizing channel and
\* a measurement have none
Invertible(op) == op.gate \in {"H", "X", "CNOT", "CCNOT"}

\* cirq.inverse(op) = op ** -1 of an invertible op: the exponent is negated
Inverse(op) == [op EXCEPT !.exp = -@]

\* all operations of a circuit, moment by moment
RECURSIVE AllOps(_)
AllOps(circuit) ==
    IF circuit = <<>> THEN <<>> ELSE Head(circuit) \o AllOps(Tail(circuit))

OpCount(circuit) == Len(AllOps(circuit))

\* the operations of a circuit that act on qubit q, in circuit order
OpsOn(circuit, q) == SelectSeq(AllOps(circuit), LAMBDA op : q \in Range(op.qubits))

-----------------------------------------------------------------------------
(* The simulator on computational-basis states (gates X, CNOT, CCNOT and   *)
(* measurement): a state is [bits, meas], bits the value of each qubit     *)
(* and meas the <<key, value>> pairs recorded so far.  X ** -1, CNOT ** -1  *)
(* and CCNOT ** -1 have the matrices of X, CNOT and CCNOT.                 *)

Flip(b) == 1 - b

Classical(op) == op.gate \in {"X", "CNOT", "CCNOT", "measure"}

ClassicalCircuit(circuit) ==
    \A i \in 1..Len(circuit) : \A j \in 1..Len(circuit[i]) :
        Classical(circuit[i][j])

ApplyOp(st, op) ==
    LET q == op.qubits
        b == st.bits
    IN  CASE op.gate = "X" ->
               [st EXCEPT !.bits[q[1]] = Flip(@)]
          [] op.gate = "CNOT" ->
               [st EXCEPT !.bits[q[2]] = IF b[q[1]] = 1 THEN Flip(@) ELSE @]
          [] op.gate = "CCNOT" ->
               [st EXCEPT !.bits[q[3]] =
                   IF b[q[1]] = 1 /\ b[q[2]] = 1 THEN Flip(@) ELSE @]
          [] op.gate = "measure" ->
               [st EXCEPT !.meas = Append(@, <<op.key, b[q[1]]>>)]

RECURSIVE ApplyOps(_, _)
ApplyOps(st, ops) ==
    IF ops = <<>> THEN st ELSE ApplyOps(ApplyOp(st, Head(ops)), Tail(ops))

\* Simulator.run(circuit, repetitions=1) from the basis state bits
Simulate(circuit, bits) ==
    ApplyOps([bits |-> bits, meas |-> <<>>], AllOps(circuit))

\* result.measurements[k][0][0]
Measured(meas, k) ==
    LET hits == SelectSeq(meas, LAMBDA m : m[1] = k) IN hits[1][2]

-----------------------------------------------------------------------------
(* quantum_error_mitigation.py                                             *)

\* create_test_circuit([LineQubit(0), LineQubit(1)]): the Bell circuit
CreateTestCircuit ==
    AppendOps(AppendOps(<<>>, <<H(0), CNOT(0, 1)>>),
              <<measure(0, "q0"), measure(1, "q1")>>)

\* the channels add_noise_to_circuit appends after one moment: one
\* depolarize per qubit of every operation that is no measurement
RECURSIVE QubitNoise(_)
QubitNoise(qs) ==
    IF qs = <<>> THEN <<>> ELSE <<depolarize(Head(qs))>> \o QubitNoise(Tail(qs))

RECURSIVE MomentNoise(_)
MomentNoise(moment) ==
    IF moment = <<>> THEN <<>>
    ELSE (IF IsMeasurement(Head(moment)) THEN <<>>
          ELSE QubitNoise(Head(moment).qubits)) \o MomentNoise(Tail(moment))

RECURSIVE AddNoise(_, _)
AddNoise(noisy_circuit, moments) ==
    IF moments = <<>> THEN noisy_circuit
    ELSE AddNoise(AppendOps(AppendMoment(noisy_circuit, Head(moments)),
                            MomentNoise(Head(moments))),
                  Tail(moments))

\* add_noise_to_circuit(circuit, noise_level)
AddNoiseToCircuit(circuit) == AddNoise(<<>>, circuit)

\* NumFolds with the product rounded to the nearest integer
NumFoldsRounded(s) == ((s - 4) * 2 + 2) \div 4

\* num_folds = int((scale_factor - 1.0) * 2), scale_factor = s / 4 >= 1.0
NumFolds(s) == ((s - 4) * 2) \div 4

\* the operations the two inner loops of scale_noise visit for one moment:
\* "for _ in range(num_folds): for op in moment"
RECURSIVE FoldVisits(_, _)
FoldVisits(moment, n) ==
    IF n <= 0 THEN <<>> ELSE moment \o FoldVisits(moment, n - 1)

\* FoldRun without the append of the inverse
RECURSIVE FoldRunNoInverse(_, _)
FoldRunNoInverse(acc, ops) ==
    IF ops = <<>> THEN acc
    ELSE FoldRunNoInverse([circuit |-> AppendOp(acc.circuit, Head(ops)),
                           n |-> acc.n + 1,
                           inv |-> acc.inv,
                           raised |-> FALSE], Tail(ops))

\* the body of the inner loop over the visited operations: append the
\* operation, then append its inverse; cirq.inverse raises TypeError for an
\* operation that has none, which ends the call
RECURSIVE FoldRun(_, _)
FoldRun(acc, ops) ==
    IF ops = <<>> THEN acc
    ELSE LET op == Head(ops)
             c1 == AppendOp(acc.circuit, op)
         IN  IF Invertible(op)
             THEN FoldRun([circuit |-> AppendOp(c1, Inverse(op)),
                           n |-> acc.n + 2,
                           inv |-> Append(acc.inv, op),
                           raised |-> FALSE], Tail(ops))
             ELSE [circuit |-> c1, n |-> acc.n + 1,
                   inv |-> Append(acc.inv, op), raised |-> TRUE]

\* one iteration of "for moment in circuit" on a moment without measurement
FoldOneMoment(circuit, moment, s, inv) ==
    FoldRun([circuit |-> AppendMoment(circuit, moment), n |-> Len(moment),
             inv |-> inv, raised |-> FALSE],
            FoldVisits(moment, NumFolds(s)))

\* "if scale_factor == 1.0: return circuit"
ReturnsInput(s) == s = 4

\* NewCircuit with the result built in the input circuit itself
NewCircuitIsInput(h) == 1

\* the object scale_noise builds its result in: a new cirq.Circuit()
NewCircuit(h) == Len(h) + 1

\* the moments the input circuits of the model are made of
MomentMenu ==
    { <<>>,
      <<H(0)>>,
      <<CNOT(0, 1), X(2)>>,
      <<CCNOT(0, 1, 2)>>,
      <<depolarize(0), depolarize(1)>>,
      <<measure(0, "q0"), measure(1, "q1")>>,
      <<measure(2, "q2"), X(0)>> }

BoundedSeqs(S, n) == UNION {[1..k -> S] : k \in 0..n}

\* no measurement key is used twice
KeysDistinct(circuit) ==
    LET ms == SelectSeq(AllOps(circuit), IsMeasurement)
    IN  \A i, j \in 1..Len(ms) : ms[i].key = ms[j].key => i = j

\* the circuits handed to run_circuit_multiple_scales: the script's own
\* (the Bell circuit, and the Bell circuit with noise as main() passes it)
\* and every circuit of at most MaxMoments moments of the menu
InputCircuits ==
    {c \in BoundedSeqs(MomentMenu, MaxMoments) : KeysDistinct(c)}
        \cup {CreateTestCircuit, AddNoiseToCircuit(CreateTestCircuit)}

ScaleFactors == 4..MaxScale

ZneIdle ==
    /\ zpc = "off" /\ noise_scales = <<>> /\ expectation_values = <<>>
    /\ zresult = [kind |-> "none"]

AdderIdle ==
    /\ apc = "off" /\ bit_a = 0 /\ bit_b = 0 /\ full_circuit = <<>>
    /\ amoment = 0 /\ qstate = <<>> /\ measurements = <<>> /\ aresult = <<>>

BB84Idle ==
    /\ bpc = "off" /\ alice_bits = <<>> /\ alice_bases = <<>>
    /\ bob_bases = <<>> /\ bi = 0 /\ key = <<>> /\ measured_bit = 0

FoldIdle ==
    /\ pc = "off" /\ heap = <<>> /\ orig = <<>> /\ calls = 0 /\ scale = 0
    /\ scaled = 0 /\ mi = 0 /\ emitted = <<>> /\ invreq = <<>> /\ ret = 0
    /\ variants = <<>> /\ target = 0

\* main(): run_circuit_multiple_scales(circuit, noise_scales) is entered
FoldInit ==
    /\ prog = "fold"
    /\ pc = "loop"
    /\ \E c \in InputCircuits : heap = <<c>> /\ orig = c
    /\ calls = 0 /\ scale = 0 /\ scaled = 0 /\ mi = 0
    /\ emitted = <<>> /\ invreq = <<>> /\ ret = 0
    /\ variants = <<>> /\ target = 0
    /\ ZneIdle /\ AdderIdle /\ BB84Idle

\* "for scale in noise_scales: scaled_circuit = scale_noise(circuit, scale)"
\* up to the loop over the moments: the early return of the input at 1.0,
\* or a new empty circuit
CallScaleNoise ==
    /\ prog = "fold" /\ pc = "loop" /\ calls < MaxCalls
    /\ \E s \in ScaleFactors :
        /\ scale' = s
        /\ IF ReturnsInput(s)
           THEN /\ heap' = heap /\ scaled' = 0 /\ ret' = 1 /\ mi' = 0
                /\ pc' = "returned"
           ELSE /\ heap' = Append(heap, <<>>) /\ scaled' = NewCircuit(heap)
                /\ ret' = 0 /\ mi' = 1 /\ pc' = "moments"
    /\ calls' = calls + 1
    /\ emitted' = <<>> /\ invreq' = <<>>
    /\ UNCHANGED <<prog, orig, variants, target, zneVars, adderVars, bb84Vars>>

\* one iteration of "for moment in circuit", no measurement in the moment
FoldMoment ==
    /\ prog = "fold" /\ pc = "moments" /\ mi <= Len(heap[1])
    /\ ~HasMeasurement(heap[1][mi])
    /\ LET r == FoldOneMoment(heap[scaled], heap[1][mi], scale, invreq)
       IN  /\ heap' = [heap EXCEPT ![scaled] = r.circuit]
           /\ emitted' = Append(emitted, r.n)
           /\ invreq' = r.inv
           /\ pc' = IF r.raised THEN "raised" ELSE "moments"
           /\ mi' = IF r.raised THEN mi ELSE mi + 1
    /\ UNCHANGED <<prog, orig, calls, scale, scaled, ret, variants, target,
                   zneVars, adderVars, bb84Vars>>

\* one iteration of "for moment in circuit", the moment holds a measurement
PassMeasurement ==
    /\ prog = "fold" /\ pc = "moments" /\ mi <= Len(heap[1])
    /\ HasMeasurement(heap[1][mi])
    /\ heap' = [heap EXCEPT ![scaled] = AppendMoment(@, heap[1][mi])]
    /\ emitted' = Append(emitted, Len(heap[1][mi]))
    /\ mi' = mi + 1
    /\ UNCHANGED <<prog, pc, orig, calls, scale, scaled, invreq, ret, variants,
                   target, zneVars, adderVars, bb84Vars>>

\* "return scaled_circuit"
ReturnScaled ==
    /\ prog = "fold" /\ pc = "moments" /\ mi > Len(heap[1])
    /\ ret' = scaled
    /\ pc' = "returned"
    /\ UNCHANGED <<prog, heap, orig, calls, scale, scaled, mi, emitted, invreq,
                   variants, target, zneVars, adderVars, bb84Vars>>

\* back in run_circuit_multiple_scales: the scaled circuit is simulated (the
\* simulator reads it and changes no circuit) and the loop goes on
RunScaled ==
    /\ prog = "fold" /\ pc = "returned"
    /\ variants' = Append(variants, [id |-> ret, scale |-> scale])
    /\ pc' = "loop"
    /\ UNCHANGED <<prog, heap, orig, calls, scale, scaled, mi, emitted, invreq,
                   ret, target, zneVars, adderVars, bb84Vars>>

\* noise_scales is exhausted
EndScales ==
    /\ prog = "fold" /\ pc = "loop"
    /\ pc' = "done"
    /\ UNCHANGED <<prog, heap, orig, calls, scale, scaled, mi, emitted, invreq,
                   ret, variants, target, zneVars, adderVars, bb84Vars>>

\* a caller appends an operation, in place, to one of the circuits
\* scale_noise returned
ClientAppend ==
    /\ prog = "fold" /\ pc = "done"
    /\ \E v \in 1..Len(variants) :
        /\ heap' = [heap EXCEPT ![variants[v].id] = AppendOp(@, X(0))]
        /\ target' = v
    /\ pc' = "appended"
    /\ UNCHANGED <<prog, orig, calls, scale, scaled, mi, emitted, invreq, ret,
                   variants, zneVars, adderVars, bb84Vars>>

-----------------------------------------------------------------------------
(* zero_noise_extrapolation.  A scale factor is counted in halves (2 is    *)
(* 1.0) and an expectation value in units of 1/repetitions; a coefficient  *)
(* of the fit is the exact fraction num/den, floating-point rounding is    *)
(* not modelled.                                                           *)

RECURSIVE Sum(_)
Sum(s) == IF s = <<>> THEN 0 ELSE Head(s) + Sum(Tail(s))

Products(xs, ys) == [i \in 1..Len(xs) |-> xs[i] * ys[i]]

\* coeffs[1] of np.polyfit(x, y, deg=1), x[i] = xs[i] / 2: the intercept of
\* the least-squares line.  An empty x raises TypeError.  When all x are
\* equal the system has rank 1: polyfit warns (RankWarning) and returns the
\* minimum-norm solution of the column-scaled system, whose intercept is
\* half the mean of y.
PolyFitIntercept(xs, ys) ==
    LET n == Len(xs)
        Sx == Sum(xs)
        Sy == Sum(ys)
        Sxx == Sum(Products(xs, xs))
        Sxy == Sum(Products(xs, ys))
        d == n * Sxx - Sx * Sx
    IN  IF n = 0 THEN [kind |-> "TypeError"]
        ELSE IF d = 0 THEN [kind |-> "value", num |-> Sy, den |-> 2 * n]
        ELSE [kind |-> "value", num |-> Sy * Sxx - Sx * Sxy, den |-> d]

\* ZeroNoiseExtrapolation returning coeffs[0], the slope of the fit
ZeroNoiseExtrapolationSlope(xs, ys) ==
    LET n == Len(xs)
        d == n * Sum(Products(xs, xs)) - Sum(xs) * Sum(xs)
    IN  IF n = 0 THEN [kind |-> "TypeError"]
        ELSE IF d = 0 THEN [kind |-> "value", num |-> Sum(ys), den |-> n * xs[1]]
        ELSE [kind |-> "value",
              num |-> 2 * (n * Sum(Products(xs, ys)) - Sum(xs) * Sum(ys)),
              den |-> d]

\* zero_noise_extrapolation(noise_scales, expectation_values)
ZeroNoiseExtrapolation(xs, ys) == PolyFitIntercept(xs, ys)

HalfScales == 2..MaxHalf

ZneInit ==
    /\ prog = "zne"
    /\ zpc = "call"
    /\ \E n \in 0..MaxPts :
        /\ noise_scales \in [1..n -> HalfScales]
        /\ expectation_values \in [1..n -> 0..MaxCount]
    /\ zresult = [kind |-> "none"]
    /\ FoldIdle /\ AdderIdle /\ BB84Idle

Extrapolate ==
    /\ prog = "zne" /\ zpc = "call"
    /\ zresult' = ZeroNoiseExtrapolation(noise_scales, expectation_values)
    /\ zpc' = "done"
    /\ UNCHANGED <<prog, noise_scales, expectation_values, foldVars, adderVars,
                   bb84Vars>>

-----------------------------------------------------------------------------
(* quantum_addition.py                                                     *)

AdderQubits == {"a", "b", "sum", "carry"}

\* QuantumHalfAdder without the second CNOT onto the sum qubit
QuantumHalfAdderOneCNOT ==
    AppendOps(<<>>, <<CNOT("a", "sum"),
                      CCNOT("a", "b", "carry"),
                      measure("sum", "sum"), measure("carry", "carry")>>)

\* quantum_half_adder(): five appends to an empty circuit
QuantumHalfAdder ==
    AppendOps(<<>>, <<CNOT("a", "sum"), CNOT("b", "sum"),
                      CCNOT("a", "b", "carry"),
                      measure("sum", "sum"), measure("carry", "carry")>>)

\* init_circuit of add_two_bits
InitCircuit(a, b) ==
    AppendOps(<<>>, (IF a = 1 THEN <<X("a")>> ELSE <<>>)
                        \o (IF b = 1 THEN <<X("b")>> ELSE <<>>))

\* Circuit.__add__: the moments of the first, then the moments of the second
Concatenate(c1, c2) == c1 \o c2

AdderInit ==
    /\ prog = "adder"
    /\ apc = "build"
    /\ bit_a \in {0, 1} /\ bit_b \in {0, 1}
    /\ full_circuit = <<>> /\ amoment = 0 /\ qstate = <<>>
    /\ measurements = <<>> /\ aresult = <<>>
    /\ FoldIdle /\ ZneIdle /\ BB84Idle

\* add_two_bits up to "full_circuit = init_circuit + circuit"; the
\* simulator starts every qubit in |0>
BuildAdder ==
    /\ prog = "adder" /\ apc = "build"
    /\ full_circuit' = Concatenate(InitCircuit(bit_a, bit_b), QuantumHalfAdder)
    /\ qstate' = [q \in AdderQubits |-> 0]
    /\ amoment' = 1
    /\ apc' = "run"
    /\ UNCHANGED <<prog, bit_a, bit_b, measurements, aresult, foldVars, zneVars,
                   bb84Vars>>

\* simulator.run(full_circuit, repetitions=1): one moment of the circuit
SimulateMoment ==
    /\ prog = "adder" /\ apc = "run" /\ amoment <= Len(full_circuit)
    /\ LET st == ApplyOps([bits |-> qstate, meas |-> measurements],
                          full_circuit[amoment])
       IN  qstate' = st.bits /\ measurements' = st.meas
    /\ amoment' = amoment + 1
    /\ UNCHANGED <<prog, apc, bit_a, bit_b, full_circuit, aresult, foldVars,
                   zneVars, bb84Vars>>

\* "return sum_result, carry_result"
ExtractResult ==
    /\ prog = "adder" /\ apc = "run" /\ amoment > Len(full_circuit)
    /\ aresult' = <<Measured(measurements, "sum"), Measured(measurements, "carry")>>
    /\ apc' = "done"
    /\ UNCHANGED <<prog, bit_a, bit_b, full_circuit, amoment, qstate,
                   measurements, foldVars, zneVars, bb84Vars>>

-----------------------------------------------------------------------------
(* quantum_crypto_bb84.py.  The qubit of one position only ever is in one  *)
(* of |0>, |1>, |+>, |->: "0", "1", "+", "-".                               *)

ApplyGate1(st, op) ==
    CASE op.gate = "X" ->
           (CASE st = "0" -> "1" [] st = "1" -> "0" [] OTHER -> st)
      [] op.gate = "H" ->
           (CASE st = "0" -> "+" [] st = "1" -> "-" [] st = "+" -> "0"
              [] st = "-" -> "1")
      [] OTHER -> st

RECURSIVE Run1(_, _)
Run1(st, ops) ==
    IF ops = <<>> THEN st ELSE Run1(ApplyGate1(st, Head(ops)), Tail(ops))

\* the values a measurement of the qubit in the Z basis can give
Outcomes(st) == CASE st = "0" -> {0} [] st = "1" -> {1} [] OTHER -> {0, 1}

\* the gates Alice appends for one position
AlicePrepares(bit, basis) ==
    IF basis = 0
    THEN (IF bit = 1 THEN <<X(0)>> ELSE <<>>)
    ELSE (IF bit = 1 THEN <<X(0)>> ELSE <<>>) \o <<H(0)>>

\* the gates Bob appends before the measurement
BobMeasures(basis) == IF basis = 1 THEN <<H(0)>> ELSE <<>>

\* the circuit of one position
PositionCircuit(bit, abasis, bbasis) ==
    AppendOps(<<>>, AlicePrepares(bit, abasis) \o BobMeasures(bbasis)
                        \o <<measure(0, "m")>>)

\* KeepsBit keeping the bit of every position
KeepsEveryBit(abasis, bbasis) == TRUE

\* "if alice_bases[i] == bob_bases[i]"
KeepsBit(abasis, bbasis) == abasis = bbasis

BB84Init ==
    /\ prog = "bb84"
    /\ bpc = "loop"
    /\ alice_bits \in [1..NumBits -> {0, 1}]
    /\ alice_bases \in [1..NumBits -> {0, 1}]
    /\ bob_bases \in [1..NumBits -> {0, 1}]
    /\ bi = 1 /\ key = <<>> /\ measured_bit = 0
    /\ FoldIdle /\ ZneIdle /\ AdderIdle

\* one iteration of "for i in range(num_bits)"
BB84Position ==
    /\ prog = "bb84" /\ bpc = "loop" /\ bi <= NumBits
    /\ LET circuit == PositionCircuit(alice_bits[bi], alice_bases[bi],
                                      bob_bases[bi])
           gates == SelectSeq(AllOps(circuit), LAMBDA op : ~IsMeasurement(op))
       IN  \E m \in Outcomes(Run1("0", gates)) :
             /\ measured_bit' = m
             /\ key' = IF KeepsBit(alice_bases[bi], bob_bases[bi])
                       THEN Append(key, m) ELSE key
    /\ bi' = bi + 1
    /\ UNCHANGED <<prog, bpc, alice_bits, alice_bases, bob_bases, foldVars,
                   zneVars, adderVars>>

\* the loop is over: the key is printed
BB84Print ==
    /\ prog = "bb84" /\ bpc = "loop" /\ bi > NumBits
    /\ bpc' = "done"
    /\ UNCHANGED <<prog, alice_bits, alice_bases, bob_bases, bi, key,
                   measured_bit, foldVars, zneVars, adderVars>>

-----------------------------------------------------------------------------
Init == FoldInit \/ ZneInit \/ AdderInit \/ BB84Init

Next ==
    \/ CallScaleNoise
    \/ FoldMoment
    \/ PassMeasurement
    \/ ReturnScaled
    \/ RunScaled
    \/ EndScales
    \/ ClientAppend
    \/ Extrapolate
    \/ BuildAdder
    \/ SimulateMoment
    \/ ExtractResult
    \/ BB84Position
    \/ BB84Print

Spec == Init /\ [][Next]_vars

-----------------------------------------------------------------------------
(* Properties of scale_noise.                                              *)

Qubits == {0, 1, 2}

BasisStates == [Qubits -> {0, 1}]

\* floor((scale_factor - 1) * 2), scale_factor = s / 4
FloorFolds(s) == CHOOSE n \in 0..(2 * s) : 4 * n <= 2 * (s - 4) /\ 2 * (s - 4) < 4 * (n + 1)

\* each operation of a moment immediately followed by its inverse
RECURSIVE WithInverses(_)
WithInverses(moment) ==
    IF moment = <<>> THEN <<>>
    ELSE <<Head(moment), Inverse(Head(moment))>> \o WithInverses(Tail(moment))

RECURSIVE Repeated(_, _)
Repeated(ops, n) == IF n <= 0 THEN <<>> ELSE ops \o Repeated(ops, n - 1)

\* the operations the fold of a circuit is to hold, in the order emitted
RECURSIVE FoldedOps(_, _)
FoldedOps(circuit, n) ==
    IF circuit = <<>> THEN <<>>
    ELSE (IF HasMeasurement(Head(circuit)) THEN Head(circuit)
          ELSE Head(circuit) \o Repeated(WithInverses(Head(circuit)), n))
             \o FoldedOps(Tail(circuit), n)

\* the moments of a, in order, are among the moments of b
RECURSIVE IsSubSeq(_, _)
IsSubSeq(a, b) ==
    IF a = <<>> THEN TRUE
    ELSE IF b = <<>> THEN FALSE
    ELSE IF Head(a) = Head(b) THEN IsSubSeq(Tail(a), Tail(b))
    ELSE IsSubSeq(a, Tail(b))

Occurrences(circuit, moment) ==
    Cardinality({i \in 1..Len(circuit) : circuit[i] = moment})

Channels(circuit) ==
    Len(SelectSeq(AllOps(circuit), LAMBDA op : op.gate = "depolarize"))

\* what a returned circuit is to look like: on every qubit the operations
\* of the fold in the order emitted, every moment's count of operations,
\* and the input's moments in their order
FoldShape ==
    pc = "returned" =>
        LET out == heap[ret]
            n == FloorFolds(scale)
            want == FoldedOps(orig, n)
        IN  /\ \A q \in Qubits :
                 OpsOn(out, q) = SelectSeq(want, LAMBDA op : q \in Range(op.qubits))
            /\ OpCount(out) = Len(want)
            /\ \A i \in 1..Len(emitted) :
                 ~HasMeasurement(orig[i]) => emitted[i] = Len(orig[i]) * (1 + 2 * n)
            /\ IsSubSeq(orig, out)

\* C1: for every circuit and every scale factor >= 1.0 scale_noise emits,
\* for each moment without measurement, the moment and then num_folds =
\* floor((scale_factor - 1) * 2) times its operations each followed by its
\* inverse: k * (1 + 2 * num_folds) operations for a moment of k, the
\* moments in the order of the input.
C1_FoldEmitsEveryMoment ==
    /\ pc # "raised"
    /\ FoldShape

\* a returned circuit holds every moment with a measurement once, unchanged
MeasurementsPass ==
    pc = "returned" =>
        \A i \in 1..Len(orig) :
            HasMeasurement(orig[i]) =>
                /\ Occurrences(heap[ret], orig[i]) = 1
                /\ i <= Len(emitted) => emitted[i] = Len(orig[i])

\* C2: for every circuit and every scale factor >= 1.0 every moment of the
\* input that holds a measurement appears in the output of scale_noise
\* exactly once and unchanged, no operation of it folded.
C2_MeasurementMomentsPass ==
    /\ pc # "raised"
    /\ MeasurementsPass

\* C3: folding keeps the circuit's action: for every circuit of X, CNOT,
\* CCNOT and measurements, every scale factor >= 1.0 and every basis state,
\* the scaled circuit ends in the same basis state with the same
\* measurement outcomes as the circuit.
C3_FoldKeepsAction ==
    (pc = "returned" /\ ClassicalCircuit(orig)) =>
        \A bits \in BasisStates :
            Simulate(heap[ret], bits) = Simulate(orig, bits)

\* a folded circuit of classical gates with a measurement, which changes
\* some basis state
C3_Witness ==
    /\ pc = "returned" /\ ClassicalCircuit(orig)
    /\ scale >= 6
    /\ OpCount(heap[ret]) > OpCount(orig)
    /\ \E i \in 1..Len(orig) : HasMeasurement(orig[i])
    /\ \E bits \in BasisStates : Simulate(heap[ret], bits).bits # bits

\* C6: noise channels are never folded: scale_noise never asks for the
\* inverse of a depolarizing channel, and every depolarizing channel of the
\* input is in the output exactly once.
C6_ChannelsNeverFolded ==
    /\ \A i \in 1..Len(invreq) : invreq[i].gate # "depolarize"
    /\ pc = "returned" => Channels(heap[ret]) = Channels(orig)

Foldable(i) == ~HasMeasurement(orig[i]) /\ orig[i] # <<>>

-----------------------------------------------------------------------------
(* Properties of zero_noise_extrapolation.                                 *)

Distinct(xs) == Cardinality(Range(xs))

\* the points (xs[i], ys[i]) are on one line through points i and j
OnLineThrough(xs, ys, i, j) ==
    \A l \in 1..Len(xs) :
        (ys[l] - ys[i]) * (xs[j] - xs[i]) = (ys[j] - ys[i]) * (xs[l] - xs[i])

\* C4: with at least two distinct scale factors and expectation values on
\* a line y = m * x + b at those scale factors, the value returned is b: for
\* points i, j of different scale the intercept of the line through them,
\* (y_i * x_j - y_j * x_i) / (x_j - x_i).
C4_ExactOnALine ==
    zpc = "done" =>
        \A i, j \in 1..Len(noise_scales) :
            (noise_scales[i] # noise_scales[j]
                /\ OnLineThrough(noise_scales, expectation_values, i, j)) =>
              /\ zresult.kind = "value"
              /\ zresult.num * (noise_scales[j] - noise_scales[i])
                   = zresult.den * (expectation_values[i] * noise_scales[j]
                                      - expectation_values[j] * noise_scales[i])

\* three scale factors, all different, and values on a line that is not flat
C4_Witness ==
    /\ zpc = "done"
    /\ Distinct(noise_scales) >= 3
    /\ OnLineThrough(noise_scales, expectation_values, 1, 2)
    /\ expectation_values[1] # expectation_values[2]
    /\ zresult.kind = "value"

\* C5: with fewer than 2 distinct scale factors the extrapolation fails
\* with InsufficientDataError and returns no estimate.
C5_FailsOnFewScales ==
    (zpc = "done" /\ Distinct(noise_scales) < 2) =>
        zresult.kind = "InsufficientDataError"

-----------------------------------------------------------------------------
(* Properties of add_two_bits.                                             *)

\* C9: for all four inputs add_two_bits returns sum = bit_a XOR bit_b and
\* carry = bit_a AND bit_b, so carry * 2 + sum = bit_a + bit_b, and the
\* qubits a and b keep the values they were prepared in.
C9_HalfAdder ==
    apc = "done" =>
        /\ aresult[1] = (bit_a + bit_b) % 2
        /\ aresult[2] = bit_a * bit_b
        /\ aresult[2] * 2 + aresult[1] = bit_a + bit_b
        /\ qstate["a"] = bit_a /\ qstate["b"] = bit_b

\* 1 + 1 returned as sum 0, carry 1
C9_Witness ==
    /\ apc = "done" /\ bit_a = 1 /\ bit_b = 1
    /\ aresult = <<0, 1>>

-----------------------------------------------------------------------------
(* Properties of the BB84 loop.                                            *)

\* Alice's bits of the positions 1..n whose bases match, in order
RECURSIVE MatchingBits(_)
MatchingBits(n) ==
    IF n = 0 THEN <<>>
    ELSE MatchingBits(n - 1)
            \o (IF alice_bases[n] = bob_bases[n] THEN <<alice_bits[n]>> ELSE <<>>)

\* C10: after the positions handled so far the key is Alice's bits of the
\* positions whose bases match, in order: a position of matching bases
\* measures Alice's bit and appends it, any other appends nothing whatever
\* it measures.
C10_KeyIsMatchingBits ==
    prog = "bb84" =>
        /\ key = MatchingBits(bi - 1)
        /\ (bi > 1 /\ alice_bases[bi - 1] = bob_bases[bi - 1])
               => measured_bit = alice_bits[bi - 1]

\* the loop is over, the key holds some but not all positions, and the last
\* position, of different bases, measured the opposite of Alice's bit
C10_Witness ==
    /\ bpc = "done"
    /\ Len(key) > 0 /\ Len(key) < NumBits
    /\ alice_bases[NumBits] # bob_bases[NumBits]
    /\ measured_bit # alice_bits[NumBits]

====
